---- MODULE Spec2Model ----
(***************************************************************************)
(* Model of the btc-data report assemblers:                                *)
(*   scripts/build_report.py         (summary-only report)                 *)
(*   scripts/build_report_bundle.py  (report with a last-24h tail)         *)
(*                                                                         *)
(* JSON values are tagged records, so that Python's isinstance tests,      *)
(* truthiness and attribute errors can be modelled:                        *)
(*   None, Bool(b), IntV(n), Flt(h), Str(s), List(xs), Dict(d)              *)
(* A float is kept as fixed point in hundredths (Flt(h) is h/100); the     *)
(* input domains keep every quotient the code forms exact at that scale.   *)
(* Raise(e) is the outcome "the call raised exception e".                  *)
(*                                                                         *)
(* build_report_bundle.py is read with lines 223-227 (the trailing         *)
(* "def fnum") as the nested function definition they are laid out to be:  *)
(* fnum is a local name of main that is bound only after the report has    *)
(* been written.                                                           *)
(***************************************************************************)
EXTENDS Integers, Sequences, FiniteSets, TLC

VARIABLES
    files,      \* the input directory: file name -> Absent, Malformed or its JSON value
    script,     \* which assembler runs: "build_report" or "build_report_bundle"
    pc,         \* position inside main()
    idx,        \* position of the FILES loop / of the periods loop
    loaded,     \* main's `loaded` dict: key -> parsed document
    status,     \* report.status: ok, missing_files, errors
    data,       \* report.data: key -> transformed document
    locals,     \* build_report_bundle.main's local names t1, latest, latest_close, fnum
    exc,        \* the exception that ended the run ("" while none)
    written,    \* the report.json that was written (Unset until the write)
    fn,         \* single call: the function applied ("" before)
    arg,        \* single call: its argument
    tailN,      \* single call: LAST_24H_KEEP_ROWS of this process
    res,        \* single call: its result (Unset before)
    res2        \* single call: the function applied to its own result

vars == <<files, script, pc, idx, loaded, status, data, locals, exc, written,
          fn, arg, tailN, res, res2>>

(***************************************************************************)
(* Bounds of the model.                                                    *)
(***************************************************************************)
MaxRows == 3        \* longest row sequence given to a summarizer
MaxTail == 4        \* largest LAST_24H_KEEP_ROWS tried
MaxDepth == 3       \* deepest nesting of the trees given to the raw strippers

(***************************************************************************)
(* JSON values and Python's view of them.                                  *)
(***************************************************************************)
None == [t |-> "null"]
Bool(b) == [t |-> "bool", b |-> b]
IntV(n) == [t |-> "int", n |-> n]
Flt(h) == [t |-> "flt", h |-> h]
Str(s) == [t |-> "str", s |-> s]
List(xs) == [t |-> "list", xs |-> xs]
Dict(d) == [t |-> "dict", d |-> d]
Raise(e) == [t |-> "raise", e |-> e]
Unset == [t |-> "unset"]
Unbound == [t |-> "unbound"]      \* a local name that has no value yet
Absent == [t |-> "absent"]        \* no such file
Malformed == [t |-> "malformed"]  \* a file that json.load rejects

EmptyMap == [k \in {} |-> None]

Raises(v) == v.t = "raise"
IsDict(v) == v.t = "dict"
IsList(v) == v.t = "list"

\* bool(v) / "if v" / "v or default"
Truthy(v) ==
    CASE v.t = "null" -> FALSE
      [] v.t = "bool" -> v.b
      [] v.t = "int" -> v.n # 0
      [] v.t = "flt" -> v.h # 0
      [] v.t = "str" -> v.s # ""
      [] v.t = "list" -> Len(v.xs) > 0
      [] v.t = "dict" -> DOMAIN v.d # {}
      [] OTHER -> TRUE

\* o.get(k, dflt): only a dict has .get
GetD(o, k, dflt) ==
    IF o.t # "dict" THEN Raise("AttributeError")
    ELSE IF k \in DOMAIN o.d THEN o.d[k] ELSE dflt

\* o.get(k)
Get(o, k) == GetD(o, k, None)

\* d with d[k] = v
Put(d, k, v) == [x \in DOMAIN d \cup {k} |-> IF x = k THEN v ELSE d[x]]

\* d without key k
Del(d, k) == [x \in DOMAIN d \ {k} |-> d[x]]

\* float(s) for the strings of the input domain; every other string is a ValueError
FloatOfStr(s) ==
    CASE s = "0" -> Flt(0)
      [] s = "50" -> Flt(5000)
      [] s = "150" -> Flt(15000)
      [] s = "160" -> Flt(16000)
      [] s = "140" -> Flt(14000)
      [] OTHER -> Raise("ValueError")

\* float(x)
PyFloat(x) ==
    CASE x.t = "int" -> Flt(100 * x.n)
      [] x.t = "flt" -> x
      [] x.t = "bool" -> Flt(IF x.b THEN 100 ELSE 0)
      [] x.t = "str" -> FloatOfStr(x.s)
      [] OTHER -> Raise("TypeError")

\* str.lower() for the label strings of the input domain
Lower(s) ==
    CASE s = "Bullish" -> "bullish"
      [] s = "BEARISH" -> "bearish"
      [] OTHER -> s

\* [r.get(k) for r in rows]: rows is truthy here or an empty list
MapGet(rows, k) ==
    CASE rows.t = "list" ->
            IF \E i \in 1..Len(rows.xs) : ~IsDict(rows.xs[i])
            THEN Raise("AttributeError")
            ELSE List([i \in 1..Len(rows.xs) |-> Get(rows.xs[i], k)])
      [] rows.t \in {"str", "dict"} -> Raise("AttributeError")  \* iterates strings
      [] OTHER -> Raise("TypeError")                              \* not iterable

\* [f(x) for x in xs if x is not None] on a sequence of values
RECURSIVE DropNone(_)
DropNone(xs) ==
    IF xs = <<>> THEN <<>>
    ELSE IF Head(xs) = None THEN DropNone(Tail(xs))
    ELSE <<Head(xs)>> \o DropNone(Tail(xs))

\* max(fs) / min(fs) of a non-empty sequence of floats
MaxOf(fs) == CHOOSE x \in {fs[i] : i \in 1..Len(fs)} : \A j \in 1..Len(fs) : fs[j].h <= x.h
MinOf(fs) == CHOOSE x \in {fs[i] : i \in 1..Len(fs)} : \A j \in 1..Len(fs) : fs[j].h >= x.h

\* round(num/den, 0) to an integer, ties to even (Python's round)
RoundDiv(num, den) ==
    LET n == IF den < 0 THEN -num ELSE num
        d == IF den < 0 THEN -den ELSE den
        q == (2 * n + d) \div (2 * d)
    IN IF (2 * n + d) % (2 * d) = 0 /\ q % 2 # 0 THEN q - 1 ELSE q

(***************************************************************************)
(* build_report.py                                                         *)
(***************************************************************************)
safe_num(x) == LET f == PyFloat(x) IN IF Raises(f) THEN None ELSE f

\* [safe_num(r.get(k)) for r in rows]
SafeNums(rows, k) ==
    LET g == MapGet(rows, k)
    IN IF Raises(g) THEN g ELSE List([i \in 1..Len(g.xs) |-> safe_num(g.xs[i])])

\* (r.get("composite_label") or "neutral").lower()
LabelOf(r) ==
    LET l == Get(r, "composite_label")
    IN IF ~Truthy(l) THEN Str("neutral")
       ELSE IF l.t = "str" THEN Str(Lower(l.s))
       ELSE Raise("AttributeError")

\* lines 64-72: the tally over the lower-cased labels of the rows
LabelCounts(rows) ==
    LET labels == [i \in 1..Len(rows) |-> LabelOf(rows[i])]
        bull == {i \in 1..Len(labels) : labels[i] = Str("bullish")}
        bear == {i \in 1..Len(labels) : labels[i] # Str("bullish") /\ labels[i] = Str("bearish")}
        neut == {i \in 1..Len(labels) : labels[i] # Str("bullish") /\ labels[i] # Str("bearish")}
    IN Dict([bullish |-> IntV(Cardinality(bull)),
             neutral |-> IntV(Cardinality(neut)),
             bearish |-> IntV(Cardinality(bear)),
             total |-> IntV(Len(labels))])

\* lines 57-61 and 83: the rounded percent change, or None
ChangePct(close_first, close_last) ==
    IF Truthy(close_first) /\ Truthy(close_last) /\ close_first.h # 0
    THEN Flt(RoundDiv((close_last.h - close_first.h) * 10000, close_first.h))
    ELSE None

summarize_rows(obj) ==
    LET r0 == Get(obj, "rows")
        rows == IF Raises(r0) \/ Truthy(r0) THEN r0 ELSE List(<<>>)
        cl == IF Raises(rows) THEN rows ELSE SafeNums(rows, "close")
    IN IF Raises(cl) THEN cl
       ELSE LET closes == DropNone(cl.xs)
                rs == rows.xs
            IN IF rs = <<>> \/ closes = <<>>
               THEN Dict([ok |-> GetD(obj, "ok", Bool(TRUE)),
                          version |-> Get(obj, "version"),
                          summary |-> Dict([count |-> IntV(Len(rs))]),
                          label_counts |-> Dict(EmptyMap)])
               ELSE LET first == rs[1]
                        last == rs[Len(rs)]
                        highs == DropNone(SafeNums(rows, "high").xs)
                        lows == DropNone(SafeNums(rows, "low").xs)
                        close_first == safe_num(Get(first, "close"))
                        close_last == safe_num(Get(last, "close"))
                    IN IF \E i \in 1..Len(rs) : Raises(LabelOf(rs[i]))
                       THEN Raise("AttributeError")
                       ELSE Dict([ok |-> GetD(obj, "ok", Bool(TRUE)),
                                  version |-> Get(obj, "version"),
                                  summary |-> Dict([
                                      count |-> IntV(Len(rs)),
                                      first_time_utc |-> Get(first, "time_utc"),
                                      last_time_utc |-> Get(last, "time_utc"),
                                      close_first |-> close_first,
                                      close_last |-> close_last,
                                      close_change_pct |-> ChangePct(close_first, close_last),
                                      high_max |-> IF highs # <<>> THEN MaxOf(highs) ELSE None,
                                      low_min |-> IF lows # <<>> THEN MinOf(lows) ELSE None]),
                                  label_counts |-> LabelCounts(rs),
                                  latest_label |-> Get(last, "composite_label"),
                                  latest_signal_events |-> Get(last, "signal_events")])

\* "rows" in obj
HasKey(obj, k) ==
    CASE obj.t = "dict" -> k \in DOMAIN obj.d
      [] obj.t = "list" -> \E i \in 1..Len(obj.xs) : obj.xs[i] = Str(k)
      [] obj.t = "str" -> obj.s = k      \* substring test, on the strings of the domain
      [] OTHER -> FALSE                  \* guarded by InRaises

\* "rows" in obj raises TypeError on a value that is no container
InRaises(obj) == obj.t \in {"null", "bool", "int", "flt"}

\* a summarizer that recomputes whether or not the document has rows
summarize_always(obj) ==
    IF InRaises(obj) THEN Raise("TypeError") ELSE summarize_rows(obj)

summarize_timeseries_file(obj) ==
    IF InRaises(obj) THEN Raise("TypeError")
    ELSE IF HasKey(obj, "rows") THEN summarize_rows(obj)
    ELSE obj

RECURSIVE strip_raw_deep(_)
strip_raw_deep(d) ==
    IF ~IsDict(d) THEN d
    ELSE Dict([k \in DOMAIN d.d \ {"raw"} |-> strip_raw_deep(d.d[k])])

(***************************************************************************)
(* build_report_bundle.py                                                  *)
(***************************************************************************)
\* lines 41-43 for one key k of ("price", "funding", "macro")
CompactKey(out, k) ==
    IF k \in DOMAIN out /\ IsDict(out[k]) /\ "raw" \in DOMAIN out[k].d
    THEN Put(out, k, Dict(Del(out[k].d, "raw")))
    ELSE out

compact_insights_local(obj) ==
    IF ~IsDict(obj) THEN obj
    ELSE Dict(CompactKey(CompactKey(CompactKey(obj.d, "price"), "funding"), "macro"))

\* the nested fnum of summarize_last24h (lines 70-74)
fnum(x) == LET f == PyFloat(x) IN IF Raises(f) THEN None ELSE f

\* [fnum(r.get(k)) for r in rows if r.get(k) is not None], rows a list of dicts
FnumsOf(rs, k) == LET g == DropNone([i \in 1..Len(rs) |-> Get(rs[i], k)])
                  IN [i \in 1..Len(g) |-> fnum(g[i])]

RECURSIVE SumOf(_)
SumOf(fs) == IF fs = <<>> THEN 0 ELSE Head(fs).h + SumOf(Tail(fs))

\* the first n rows instead of the last n
HeadRows(rs, n) ==
    IF n > 0 THEN SubSeq(rs, 1, (IF n < Len(rs) THEN n ELSE Len(rs))) ELSE <<>>

\* line 91: rows[-n:] if n > 0 else []
TailRows(rs, n) ==
    IF n > 0
    THEN SubSeq(rs, (IF Len(rs) - n + 1 < 1 THEN 1 ELSE Len(rs) - n + 1), Len(rs))
    ELSE <<>>

\* lines 87-89; the unrounded quotient is exact in hundredths on the input domain
BundleChangePct(open_first, close_last) ==
    IF open_first # None /\ open_first.h # 0 /\ close_last # None
    THEN Flt((close_last.h * 10000) \div open_first.h - 10000)
    ELSE None

\* summarize_last24h with LAST_24H_KEEP_ROWS = n
summarize_last24h(obj, n) ==
    IF ~IsDict(obj) THEN Dict([ok |-> Bool(FALSE), error |-> Str("invalid_json")])
    ELSE
    LET r0 == Get(obj, "rows")
        rows == IF Truthy(r0) THEN r0 ELSE List(<<>>)
    IN CASE rows.t = "str" -> Raise("AttributeError")     \* rows[0] is a str
         [] rows.t = "dict" -> Raise("KeyError")          \* rows[0] on a JSON object
         [] rows.t # "list" -> Raise("TypeError")         \* not subscriptable
         [] OTHER ->
            LET rs == rows.xs IN
            IF rs = <<>>
            THEN Dict([ok |-> Bool(Truthy(Get(obj, "ok"))),
                       version |-> Get(obj, "version"),
                       summary |-> Dict([bars |-> IntV(0)]),
                       rows_tail |-> List(<<>>)])
            ELSE IF \E i \in 1..Len(rs) : ~IsDict(rs[i])
            THEN Raise("AttributeError")
            ELSE
            LET open_first == fnum(Get(rs[1], "open"))
                close_last == fnum(Get(rs[Len(rs)], "close"))
                highs == DropNone(FnumsOf(rs, "high"))
                lows == DropNone(FnumsOf(rs, "low"))
                vols == FnumsOf(rs, "volume")
            IN Dict([ok |-> Bool(Truthy(Get(obj, "ok"))),
                     version |-> Get(obj, "version"),
                     summary |-> Dict([
                         bars |-> IntV(Len(rs)),
                         open_first |-> open_first,
                         close_last |-> close_last,
                         high |-> IF highs # <<>> THEN MaxOf(highs) ELSE None,
                         low |-> IF lows # <<>> THEN MinOf(lows) ELSE None,
                         change_pct |-> BundleChangePct(open_first, close_last),
                         volume_sum |-> IF vols = <<>> THEN None
                                        ELSE IF DropNone(vols) = <<>> THEN IntV(0)
                                        ELSE Flt(SumOf(DropNone(vols))),
                         first_time_utc |-> Get(rs[1], "time_utc"),
                         last_time_utc |-> Get(rs[Len(rs)], "time_utc")]),
                     rows_tail |-> List(TailRows(rs, n))])

keep_summary_only(obj) ==
    IF ~IsDict(obj) THEN Dict([ok |-> Bool(FALSE), error |-> Str("invalid_json")])
    ELSE
    LET o1 == [ok |-> Bool(Truthy(GetD(obj, "ok", Bool(TRUE)))),
               version |-> Get(obj, "version")]
        o2 == IF "summary" \in DOMAIN obj.d THEN Put(o1, "summary", obj.d.summary) ELSE o1
        o3 == IF "label_counts" \in DOMAIN obj.d
              THEN Put(o2, "label_counts", obj.d.label_counts) ELSE o2
    IN IF "rows" \in DOMAIN obj.d /\ IsList(obj.d.rows) /\ obj.d.rows.xs # <<>>
       THEN LET rs == obj.d.rows.xs
                cur == IF "summary" \in DOMAIN o3 THEN o3.summary ELSE None
            IN IF Truthy(cur) THEN Dict(Put(o3, "summary", cur))
               ELSE IF ~IsDict(rs[Len(rs)]) THEN Raise("AttributeError")
               ELSE Dict(Put(o3, "summary",
                        Dict([count |-> IntV(Len(rs)),
                              latest_time_utc |-> Get(rs[Len(rs)], "time_utc"),
                              close_last |-> Get(rs[Len(rs)], "close")])))
       ELSE Dict(o3)

(***************************************************************************)
(* Input domains.                                                          *)
(***************************************************************************)
TimeOf(i) ==
    CASE i = 1 -> "t1" [] i = 2 -> "t2" [] i = 3 -> "t3" [] i = 4 -> "t4"
      [] i = 5 -> "t5" [] i = 6 -> "t6" [] OTHER -> "t7"

RowKinds == {"up", "zero", "strnum", "junk", "noclose", "badlabel", "scalar", "mid"}

\* the i-th element of a rows sequence, of the given kind
MkRow(kind, i) ==
    CASE kind = "up" ->
            Dict([time_utc |-> Str(TimeOf(i)), open |-> IntV(100), high |-> IntV(110),
                  low |-> IntV(90), close |-> IntV(100), volume |-> IntV(5),
                  composite_label |-> Str("Bullish"),
                  signal_events |-> List(<<Str("cross")>>)])
      [] kind = "zero" ->
            Dict([time_utc |-> Str(TimeOf(i)), open |-> IntV(0), high |-> IntV(0),
                  low |-> IntV(0), close |-> IntV(0), composite_label |-> Str("BEARISH")])
      [] kind = "strnum" ->
            Dict([time_utc |-> Str(TimeOf(i)), open |-> Str("50"), high |-> Str("160"),
                  low |-> Str("140"), close |-> Str("150"), volume |-> Str("n/a")])
      [] kind = "junk" ->
            Dict([time_utc |-> Str(TimeOf(i)), close |-> Str("abc"), high |-> None,
                  composite_label |-> Str("bullish")])
      [] kind = "noclose" ->
            Dict([time_utc |-> Str(TimeOf(i)), composite_label |-> Str("sideways")])
      [] kind = "badlabel" ->
            Dict([time_utc |-> Str(TimeOf(i)), open |-> IntV(50), close |-> IntV(50),
                  composite_label |-> IntV(5)])
      [] kind = "mid" ->
            Dict([time_utc |-> Str(TimeOf(i)), open |-> IntV(100), close |-> IntV(50),
                  composite_label |-> Str("neutral")])
      [] OTHER -> IntV(7)        \* "scalar": an element that is no mapping

RowSeqs(n) ==
    UNION {{[i \in 1..k |-> MkRow(ks[i], i)] : ks \in [1..k -> RowKinds]} : k \in 0..n}

OkChoices == {Bool(TRUE), Bool(FALSE), IntV(1), Str("")}

\* documents in the rows shape
RowDocs ==
    {Dict([version |-> Str("v1"), count |-> IntV(Len(rs)), rows |-> List(rs)]) :
        rs \in RowSeqs(MaxRows)}
    \cup {Dict([ok |-> o, version |-> Str("v1"), rows |-> List(rs)]) :
        o \in OkChoices, rs \in RowSeqs(1)}

SomeSummary == Dict([count |-> IntV(2160), close_first |-> Flt(10000),
                     close_last |-> Flt(15000), close_change_pct |-> Flt(5000)])
SomeCounts == Dict([bullish |-> IntV(1000), neutral |-> IntV(160),
                    bearish |-> IntV(1000), total |-> IntV(2160)])

\* documents that are already summarized: summary/label_counts and no rows
SummarizedDocs ==
    {Dict([ok |-> Bool(TRUE), version |-> Str("v1"), summary |-> SomeSummary,
           label_counts |-> SomeCounts]),
     Dict([ok |-> Bool(FALSE), version |-> Str("v1"), summary |-> SomeSummary,
           label_counts |-> SomeCounts]),
     Dict([summary |-> SomeSummary, label_counts |-> SomeCounts]),
     Dict([ok |-> IntV(1), version |-> IntV(2), summary |-> SomeSummary,
           label_counts |-> SomeCounts, generated_utc |-> Str("t1")]),
     Dict([version |-> Str("v1"), summary |-> Dict(EmptyMap), label_counts |-> SomeCounts])}

\* documents that parse as JSON but have an unexpected shape
ShapeDocs ==
    {List(<<IntV(1)>>), IntV(3), Str("rows"), None,
     Dict([rows |-> Str("oops")]), Dict([rows |-> IntV(5)]),
     Dict([rows |-> Dict([a |-> IntV(1)])]), Dict([rows |-> None, version |-> Str("v1")]),
     Dict([summary |-> SomeSummary, rows |-> List(<<IntV(7)>>)])}

DatasetDocs == RowDocs \cup SummarizedDocs \cup ShapeDocs

TreeKeys == {"raw", "price"}

\* JSON trees nested to depth n
RECURSIVE Trees(_)
Trees(n) ==
    IF n = 0 THEN {IntV(1)}
    ELSE LET sub == Trees(n - 1)
         IN sub
            \cup UNION {{Dict(f) : f \in [S -> sub]} : S \in SUBSET TreeKeys}
            \cup {List(<<>>)} \cup {List(<<x>>) : x \in sub}

(***************************************************************************)
(* The summarizers as operations on one document.                          *)
(***************************************************************************)
Idle ==
    /\ files = EmptyMap /\ script = "" /\ pc = "" /\ idx = 0 /\ loaded = EmptyMap
    /\ status = EmptyMap /\ data = EmptyMap /\ locals = EmptyMap
    /\ exc = "" /\ written = Unset

InitSum ==
    /\ Idle
    /\ fn = "" /\ res = Unset /\ res2 = Unset
    /\ arg \in DatasetDocs
    /\ tailN \in 0..MaxTail

Apply(name, result) ==
    /\ fn = ""
    /\ fn' = name
    /\ res' = result
    /\ UNCHANGED <<files, script, pc, idx, loaded, status, data, locals, exc, written,
                   arg, tailN, res2>>

ApplySummarizeRows == Apply("summarize_rows", summarize_rows(arg))
ApplySummarizeTimeseriesFile ==
    Apply("summarize_timeseries_file", summarize_timeseries_file(arg))
ApplySummarizeLast24h == Apply("summarize_last24h", summarize_last24h(arg, tailN))
ApplyKeepSummaryOnly == Apply("keep_summary_only", keep_summary_only(arg))

\* the same periodic summarizer applied to its own output
Reapply ==
    /\ fn \in {"summarize_timeseries_file", "keep_summary_only"}
    /\ ~Raises(res) /\ res2 = Unset
    /\ res2' = IF fn = "keep_summary_only" THEN keep_summary_only(res)
               ELSE summarize_timeseries_file(res)
    /\ UNCHANGED <<files, script, pc, idx, loaded, status, data, locals, exc, written,
                   fn, arg, tailN, res>>

NextSum ==
    \/ ApplySummarizeRows
    \/ ApplySummarizeTimeseriesFile
    \/ ApplySummarizeLast24h
    \/ ApplyKeepSummaryOnly
    \/ Reapply

SpecSum == InitSum /\ [][NextSum]_vars

(***************************************************************************)
(* The raw strippers as operations on one JSON tree.                       *)
(***************************************************************************)
InitStrip ==
    /\ Idle
    /\ fn = "" /\ res = Unset /\ res2 = Unset
    /\ arg \in Trees(MaxDepth)
    /\ tailN = 0

ApplyStripRawDeep == Apply("strip_raw_deep", strip_raw_deep(arg))
ApplyCompactInsightsLocal == Apply("compact_insights_local", compact_insights_local(arg))

NextStrip == ApplyStripRawDeep \/ ApplyCompactInsightsLocal

SpecStrip == InitStrip /\ [][NextStrip]_vars

(***************************************************************************)
(* The two assemblers: main() of build_report.py and of                    *)
(* build_report_bundle.py, one action per block of main.                   *)
(***************************************************************************)
Scripts == {"build_report", "build_report_bundle"}

\* FILES, in insertion order
FILES(s) ==
    IF s = "build_report"
    THEN <<"dashboard", "insights_local", "latest", "last-24h", "90d", "ytd", "2023", "2024">>
    ELSE <<"dashboard", "tier1", "latest", "last-24h", "90d", "ytd", "2023", "2024">>

FileName(key) ==
    CASE key = "dashboard" -> "dashboard.json"
      [] key = "insights_local" -> "insights_local.json"
      [] key = "tier1" -> "tier1.json"
      [] key = "latest" -> "latest.json"
      [] key = "last-24h" -> "last-24h.json"
      [] key = "90d" -> "90d.json"
      [] key = "ytd" -> "ytd.json"
      [] key = "2023" -> "2023.json"
      [] OTHER -> "2024.json"

Periods == <<"90d", "ytd", "2023", "2024">>

Rows3 == [i \in 1..3 |-> MkRow(IF i = 2 THEN "strnum" ELSE "up", i)]

\* what each input file may hold
FileChoices(key) ==
    <<Absent, Malformed>> \o
    CASE key = "dashboard" -> <<Dict([title |-> Str("btc"), raw |-> IntV(1)])>>
      [] key \in {"insights_local", "tier1"} ->
            <<Dict([price |-> Dict([btc_usd |-> IntV(100), raw |-> Dict([amount |-> Str("100")])]),
                    sources |-> List(<<Dict([raw |-> IntV(1)])>>)])>>
      [] key = "latest" ->
            <<Dict([ok |-> Bool(TRUE), count |-> IntV(3), rows |-> List(Rows3)]),
              Dict([ok |-> Bool(TRUE), close |-> IntV(100)])>>
      [] key = "last-24h" ->
            <<Dict([ok |-> Bool(TRUE), rows |-> List(<<MkRow("junk", 1), MkRow("noclose", 2)>>)]),
              Dict([ok |-> Bool(TRUE), rows |-> List(<<MkRow("up", 1), MkRow("scalar", 2)>>)])>>
      [] key = "90d" ->
            <<Dict([ok |-> Bool(TRUE), summary |-> SomeSummary, label_counts |-> SomeCounts]),
              Dict([rows |-> Str("oops")])>>
      [] key = "ytd" -> <<Dict([summary |-> SomeSummary, label_counts |-> SomeCounts]),
                          List(<<IntV(1)>>)>>
      [] key = "2023" -> <<Dict([rows |-> List(<<MkRow("up", 1), MkRow("zero", 2)>>)])>>
      [] OTHER -> <<Dict([ok |-> Bool(FALSE), version |-> Str("v1"), summary |-> SomeSummary,
                          label_counts |-> SomeCounts])>>

\* the input directories tried for script s: every combination of the choices
Directories(s) ==
    LET keys == FILES(s)
        most == 1..Len(FileChoices("latest"))
        picks == {v \in [1..Len(keys) -> most] :
                    \A i \in 1..Len(keys) : v[i] <= Len(FileChoices(keys[i]))}
    IN {[n \in {FileName(keys[i]) : i \in 1..Len(keys)} |->
            LET i == CHOOSE j \in 1..Len(keys) : FileName(keys[j]) = n
            IN FileChoices(keys[i])[v[i]]] : v \in picks}

Init ==
    /\ script \in Scripts
    /\ files \in Directories(script)
    /\ pc = "load" /\ idx = 1
    /\ loaded = EmptyMap
    /\ status = [ok |-> TRUE, missing_files |-> <<>>, errors |-> EmptyMap]
    /\ data = EmptyMap
    /\ locals = [t1 |-> Unbound, latest |-> Unbound, latest_close |-> Unbound,
                 fnum |-> Unbound]
    /\ exc = "" /\ written = Unset
    /\ fn = "" /\ arg = Unset /\ tailN = 0 /\ res = Unset /\ res2 = Unset

KeyAt(i) == FILES(script)[i]

Abort(e) ==
    /\ pc' = "aborted"
    /\ exc' = e

\* lines 126-127 (bundle 153-154): the file does not exist
RecordMissing(st, fname) ==
    [st EXCEPT !.ok = FALSE, !.missing_files = Append(@, fname)]

\* a parse error that leaves status.ok as it was
RecordErrorKeepsOk(st, fname, msg) ==
    [st EXCEPT !.errors = Put(@, fname, msg)]

\* lines 131-133 (bundle 158-160): json.load raised
RecordError(st, fname, msg) ==
    [st EXCEPT !.ok = FALSE, !.errors = Put(@, fname, msg)]

\* build_report.py lines 123-133, build_report_bundle.py lines 150-160:
\* one iteration of "for key, fname in FILES.items()"
LoadFile ==
    /\ pc = "load"
    /\ LET key == KeyAt(idx)
           fname == FileName(key)
           f == files[fname]
       IN /\ IF f = Absent
             THEN /\ status' = RecordMissing(status, fname)
                  /\ UNCHANGED loaded
             ELSE IF f = Malformed
             THEN /\ status' = RecordError(status, fname, "JSONDecodeError")
                  /\ UNCHANGED loaded
             ELSE /\ loaded' = Put(loaded, key, f)
                  /\ UNCHANGED status
    /\ IF idx < Len(FILES(script))
       THEN idx' = idx + 1 /\ pc' = pc
       ELSE idx' = 1 /\ pc' = "dashboard"
    /\ UNCHANGED <<files, script, data, locals, exc, written, fn, arg, tailN, res, res2>>

\* both scripts: "if 'dashboard' in loaded: data['dashboard'] = loaded['dashboard']"
KeepDashboard ==
    /\ pc = "dashboard"
    /\ data' = IF "dashboard" \in DOMAIN loaded
               THEN Put(data, "dashboard", loaded["dashboard"]) ELSE data
    /\ pc' = "insights"
    /\ UNCHANGED <<files, script, idx, loaded, status, locals, exc, written,
                   fn, arg, tailN, res, res2>>

\* build_report.py lines 139-141
StripInsights ==
    /\ pc = "insights" /\ script = "build_report"
    /\ data' = IF "insights_local" \in DOMAIN loaded
               THEN Put(data, "insights_local", strip_raw_deep(loaded["insights_local"]))
               ELSE data
    /\ pc' = "latest"
    /\ UNCHANGED <<files, script, idx, loaded, status, locals, exc, written,
                   fn, arg, tailN, res, res2>>

\* build_report.py lines 143-145
KeepLatest ==
    /\ pc = "latest" /\ script = "build_report"
    /\ data' = IF "latest" \in DOMAIN loaded
               THEN Put(data, "latest", loaded["latest"]) ELSE data
    /\ pc' = "last24h"
    /\ UNCHANGED <<files, script, idx, loaded, status, locals, exc, written,
                   fn, arg, tailN, res, res2>>

\* a transform's result goes into data[key], or its exception ends the run
Store(key, result, nextpc) ==
    IF Raises(result)
    THEN Abort(result.e) /\ UNCHANGED data
    ELSE data' = Put(data, key, result) /\ pc' = nextpc /\ UNCHANGED exc

\* build_report.py lines 147-149
SummarizeLast24hRows ==
    /\ pc = "last24h" /\ script = "build_report"
    /\ IF "last-24h" \in DOMAIN loaded
       THEN Store("last-24h", summarize_rows(loaded["last-24h"]), "periods")
       ELSE pc' = "periods" /\ UNCHANGED <<data, exc>>
    /\ UNCHANGED <<files, script, idx, loaded, status, locals, written,
                   fn, arg, tailN, res, res2>>

\* after the last period comes the write
AfterPeriod == IF idx < Len(Periods) THEN "periods" ELSE "write"

\* build_report.py lines 152-154: one iteration of the periods loop
SummarizePeriod ==
    /\ pc = "periods" /\ script = "build_report"
    /\ LET k == Periods[idx]
       IN IF k \in DOMAIN loaded
          THEN Store(k, summarize_timeseries_file(loaded[k]), AfterPeriod)
          ELSE pc' = AfterPeriod /\ UNCHANGED <<data, exc>>
    /\ idx' = IF idx < Len(Periods) THEN idx + 1 ELSE idx
    /\ UNCHANGED <<files, script, loaded, status, locals, written,
                   fn, arg, tailN, res, res2>>

\* the report document handed to json.dump
Report ==
    [generated_utc |-> "now", schema |-> "btc-data-report-v1",
     status |-> status, data |-> data]

\* build_report.py lines 156-166
WriteReport ==
    /\ pc = "write" /\ script = "build_report"
    /\ written' = Report
    /\ pc' = "done"
    /\ UNCHANGED <<files, script, idx, loaded, status, data, locals, exc,
                   fn, arg, tailN, res, res2>>

\* lines 172-175
Tier1Note ==
    Str("Tier-1 data is fetched at workflow runtime (spot price, macro, funding). It is NOT the authoritative hourly candle close used by the Sheets engine.")

\* lines 178-182: fnum(...) inside try/except; fnum is a local of main
SpotOf(t1) ==
    IF locals.fnum = Unbound THEN None            \* UnboundLocalError, caught
    ELSE LET p == Get(t1, "price")
             q == IF Truthy(p) THEN p ELSE Dict(EmptyMap)
             v == Get(q, "btc_usd")
         IN IF Raises(v) THEN None ELSE fnum(v)

\* build_report_bundle.py lines 166-192
CompactTier1 ==
    /\ pc = "insights" /\ script = "build_report_bundle"
    /\ LET t1 == IF "tier1" \in DOMAIN loaded
                 THEN compact_insights_local(loaded["tier1"]) ELSE locals.t1
       IN IF t1 = Unbound
          THEN /\ Abort("UnboundLocalError")                \* line 171 reads t1
               /\ UNCHANGED <<data, locals>>
          ELSE IF ~IsDict(t1)
          THEN /\ data' = Put(data, "tier1", t1)
               /\ locals' = [locals EXCEPT !.t1 = t1]
               /\ pc' = "latest" /\ UNCHANGED exc
          ELSE LET spot == SpotOf(t1)
                   noted == Put(t1.d, "note", Tier1Note)
               IN IF spot # None /\ locals.latest_close = Unbound
                  THEN /\ Abort("UnboundLocalError")        \* line 184 reads latest_close
                       /\ locals' = [locals EXCEPT !.t1 = Dict(noted)]
                       /\ UNCHANGED data
                  ELSE LET lc == locals.latest_close
                           out == IF spot # None /\ lc # None /\ lc.h # 0
                                  THEN Put(Put(noted, "spot_vs_latest_close_usd",
                                               Flt(spot.h - lc.h)),
                                           "spot_vs_latest_close_pct",
                                           Flt(RoundDiv((spot.h - lc.h) * 10000, lc.h)))
                                  ELSE Put(Put(noted, "spot_vs_latest_close_usd", None),
                                           "spot_vs_latest_close_pct", None)
                       IN /\ data' = Put(data, "tier1", Dict(out))
                          /\ locals' = [locals EXCEPT !.t1 = Dict(out)]
                          /\ pc' = "latest" /\ UNCHANGED exc
    /\ UNCHANGED <<files, script, idx, loaded, status, written, fn, arg, tailN, res, res2>>

\* isinstance(latest, dict) and isinstance(latest.get("rows"), list) and latest["rows"]
HasRowList(latest) ==
    /\ IsDict(latest)
    /\ IsList(Get(latest, "rows"))
    /\ Get(latest, "rows").xs # <<>>

\* lines 200-202: keep only the last row
TruncateLatest(latest) ==
    IF HasRowList(latest)
    THEN Dict(Put(Put(latest.d, "rows",
                      List(<<latest.d.rows.xs[Len(latest.d.rows.xs)]>>)),
                  "count", IntV(1)))
    ELSE latest

\* build_report_bundle.py lines 195-207
TruncateLatestRow ==
    /\ pc = "latest" /\ script = "build_report_bundle"
    /\ LET latest == IF "latest" \in DOMAIN loaded
                     THEN TruncateLatest(loaded["latest"]) ELSE locals.latest
       IN /\ data' = IF "latest" \in DOMAIN loaded
                     THEN Put(data, "latest", latest) ELSE data
          /\ IF latest = Unbound
             THEN /\ Abort("UnboundLocalError")             \* line 206 reads latest
                  /\ locals' = [locals EXCEPT !.latest_close = None]
             ELSE IF HasRowList(latest) /\ locals.fnum = Unbound
             THEN /\ Abort("UnboundLocalError")             \* line 207 reads fnum
                  /\ locals' = [locals EXCEPT !.latest = latest, !.latest_close = None]
             ELSE /\ locals' = [locals EXCEPT
                                   !.latest = latest,
                                   !.latest_close =
                                       IF HasRowList(latest)
                                       THEN LET c == Get(latest.d.rows.xs[1], "close")
                                            IN IF Raises(c) THEN None ELSE fnum(c)
                                       ELSE None]
                  /\ pc' = "last24h" /\ UNCHANGED exc
    /\ UNCHANGED <<files, script, idx, loaded, status, written, fn, arg, tailN, res, res2>>

\* LAST_24H_KEEP_ROWS when REPORT_LAST24H_ROWS is not set (line 10)
LAST_24H_KEEP_ROWS == 3

\* build_report_bundle.py lines 210-212
SummarizeLast24hTail ==
    /\ pc = "last24h" /\ script = "build_report_bundle"
    /\ IF "last-24h" \in DOMAIN loaded
       THEN Store("last-24h", summarize_last24h(loaded["last-24h"], LAST_24H_KEEP_ROWS),
                  "periods")
       ELSE pc' = "periods" /\ UNCHANGED <<data, exc>>
    /\ UNCHANGED <<files, script, idx, loaded, status, locals, written,
                   fn, arg, tailN, res, res2>>

\* build_report_bundle.py lines 214-217: one iteration of the periods loop
KeepPeriodSummary ==
    /\ pc = "periods" /\ script = "build_report_bundle"
    /\ LET k == Periods[idx]
       IN IF k \in DOMAIN loaded
          THEN Store(k, keep_summary_only(loaded[k]), AfterPeriod)
          ELSE pc' = AfterPeriod /\ UNCHANGED <<data, exc>>
    /\ idx' = IF idx < Len(Periods) THEN idx + 1 ELSE idx
    /\ UNCHANGED <<files, script, loaded, status, locals, written,
                   fn, arg, tailN, res, res2>>

\* build_report_bundle.py lines 219-229: the write, then "def fnum" binds the name
WriteBundle ==
    /\ pc = "write" /\ script = "build_report_bundle"
    /\ written' = Report
    /\ locals' = [locals EXCEPT !.fnum = Str("function")]
    /\ pc' = "done"
    /\ UNCHANGED <<files, script, idx, loaded, status, data, exc,
                   fn, arg, tailN, res, res2>>

Next ==
    \/ LoadFile
    \/ KeepDashboard
    \/ StripInsights
    \/ KeepLatest
    \/ SummarizeLast24hRows
    \/ SummarizePeriod
    \/ WriteReport
    \/ CompactTier1
    \/ TruncateLatestRow
    \/ SummarizeLast24hTail
    \/ KeepPeriodSummary
    \/ WriteBundle

Spec == Init /\ [][Next]_vars

(***************************************************************************)
(* Properties.                                                             *)
(***************************************************************************)
ConfiguredNames == [i \in 1..Len(FILES(script)) |-> FileName(KeyAt(i))]
IsAbsentName(n) == files[n] = Absent
MissingInOrder == SelectSeq(ConfiguredNames, IsAbsentName)
PresentKeys == {KeyAt(i) : i \in {j \in 1..Len(FILES(script)) : files[FileName(KeyAt(j))] # Absent}}
Finished == pc \in {"done", "aborted"}

\* every file is either absent or holds its first, well-formed document
OthersWellFormed ==
    \A i \in 1..Len(FILES(script)) :
        files[FileName(KeyAt(i))] \in {Absent, FileChoices(KeyAt(i))[3]}

\* C1: in both assemblers, whatever subset of the 8 configured files is absent
\* (the others present and well-formed), the run reaches the write of
\* report.json, status.missing_files is exactly the absent file names in
\* configuration order, and the keys of data are exactly the keys of the files
\* that are present.
C1_AbsentFilesTolerated ==
    (OthersWellFormed /\ Finished) =>
        /\ pc = "done"
        /\ written.status.missing_files = MissingInOrder
        /\ DOMAIN written.data = PresentKeys

\* C2: in the emitted report, status.ok is true exactly when missing_files and
\* errors are both empty, that is exactly when no input file is absent or
\* unparseable, whatever the rows of the parsed files hold; an unparseable file
\* is recorded under status.errors[filename] and its key is not in data.
C2_StatusOkIffNothingMissingOrFailed ==
    written # Unset =>
        LET st == written.status
        IN /\ st.ok <=> (st.missing_files = <<>> /\ DOMAIN st.errors = {})
           /\ st.ok <=> (\A n \in DOMAIN files : files[n] \notin {Absent, Malformed})
           /\ DOMAIN st.errors = {n \in DOMAIN files : files[n] = Malformed}
           /\ \A i \in 1..Len(FILES(script)) :
                 files[FileName(KeyAt(i))] = Malformed => KeyAt(i) \notin DOMAIN written.data

\* a report was written although one file was absent and another unparseable,
\* and it carries the summary of a last-24h file
C2_Witness ==
    /\ written # Unset
    /\ \E n \in DOMAIN files : files[n] = Absent
    /\ \E n \in DOMAIN files : files[n] = Malformed
    /\ ~written.status.ok
    /\ "last-24h" \in DOMAIN written.data

\* the document is a mapping whose rows field is a sequence
HasRowSeq(doc) == IsDict(doc) /\ "rows" \in DOMAIN doc.d /\ IsList(doc.d.rows)

\* a parsed document of unexpected shape: no mapping, rows that are no
\* sequence, or rows holding elements that are no mappings
UnexpectedShape(doc) ==
    \/ ~IsDict(doc)
    \/ "rows" \in DOMAIN doc.d /\ ~IsList(doc.d.rows) /\ doc.d.rows # None
    \/ HasRowSeq(doc) /\ \E i \in 1..Len(doc.d.rows.xs) : ~IsDict(doc.d.rows.xs[i])

\* the document with the elements of rows that are no mappings left out
FilterRows(doc) ==
    IF HasRowSeq(doc)
    THEN Dict(Put(doc.d, "rows", List(SelectSeq(doc.d.rows.xs, IsDict))))
    ELSE doc

\* C3: a per-dataset transform given a parsed document of unexpected shape
\* does not raise, and elements of rows that are no mappings are filtered out
\* (the result is that of the document without them).
C3_NoExceptionCrossesDataset ==
    (fn \in {"summarize_rows", "summarize_timeseries_file", "summarize_last24h",
             "keep_summary_only"} /\ UnexpectedShape(arg)) =>
        /\ ~Raises(res)
        /\ fn = "summarize_rows" /\ HasRowSeq(arg) => res = summarize_rows(FilterRows(arg))

\* rows is a sequence of mappings whose labels are strings or absent
PlainRows(doc) ==
    /\ HasRowSeq(doc)
    /\ \A i \in 1..Len(doc.d.rows.xs) :
          /\ IsDict(doc.d.rows.xs[i])
          /\ Get(doc.d.rows.xs[i], "composite_label").t \in {"null", "str"}

LabelIs(r, word) ==
    Get(r, "composite_label").t = "str" /\ Lower(Get(r, "composite_label").s) = word

NumLabelled(rs, word) == Cardinality({i \in 1..Len(rs) : LabelIs(rs[i], word)})

\* C4: for every row sequence R, the empty one and those without a coercible
\* close included, summarize_rows gives label_counts.total = len(R) and
\* bullish + neutral + bearish = total, bullish and bearish counting the rows
\* whose lower-cased label is exactly that word.
C4_LabelCountsTotal ==
    (fn = "summarize_rows" /\ PlainRows(arg)) =>
        LET rs == arg.d.rows.xs
        IN /\ IsDict(res) /\ "label_counts" \in DOMAIN res.d
           /\ {"bullish", "neutral", "bearish", "total"} \subseteq DOMAIN res.d.label_counts.d
           /\ LET lc == res.d.label_counts.d
              IN /\ lc.total = IntV(Len(rs))
                 /\ lc.bullish = IntV(NumLabelled(rs, "bullish"))
                 /\ lc.bearish = IntV(NumLabelled(rs, "bearish"))
                 /\ lc.bullish.n + lc.neutral.n + lc.bearish.n = lc.total.n

Coercible(r) == safe_num(Get(r, "close")) # None
CoercibleAt(rs) == {i \in 1..Len(rs) : Coercible(rs[i])}
FirstOf(S) == CHOOSE i \in S : \A j \in S : i <= j
LastOf(S) == CHOOSE i \in S : \A j \in S : i >= j

\* C5: when some row has a coercible close, summarize_rows reports close_first
\* as the first and close_last as the last coercible close in sequence order,
\* and summary.count as the length of the whole row sequence.
C5_FirstAndLastCoercibleClose ==
    (fn = "summarize_rows" /\ PlainRows(arg) /\ CoercibleAt(arg.d.rows.xs) # {}) =>
        LET rs == arg.d.rows.xs
            sm == res.d.summary.d
        IN /\ sm.count = IntV(Len(rs))
           /\ sm.close_first = safe_num(Get(rs[FirstOf(CoercibleAt(rs))], "close"))
           /\ sm.close_last = safe_num(Get(rs[LastOf(CoercibleAt(rs))], "close"))

\* C6: for a non-empty row sequence whose closes are all coercible,
\* close_change_pct is None exactly when the first close is 0; otherwise, also
\* when the last close is 0, it is (last - first) / first * 100 to 2 decimals.
C6_ChangePctNoneIffFirstZero ==
    (fn = "summarize_rows" /\ PlainRows(arg) /\ arg.d.rows.xs # <<>>
        /\ CoercibleAt(arg.d.rows.xs) = 1..Len(arg.d.rows.xs)) =>
        LET rs == arg.d.rows.xs
            first == safe_num(Get(rs[1], "close"))
            last == safe_num(Get(rs[Len(rs)], "close"))
            pct == res.d.summary.d.close_change_pct
        IN /\ pct = None <=> first.h = 0
           /\ first.h # 0 => pct = Flt(RoundDiv((last.h - first.h) * 10000, first.h))

\* the tree has a mapping key "raw" at some depth
RECURSIVE HasRaw(_)
HasRaw(v) ==
    CASE v.t = "dict" -> "raw" \in DOMAIN v.d \/ \E k \in DOMAIN v.d : HasRaw(v.d[k])
      [] v.t = "list" -> \E i \in 1..Len(v.xs) : HasRaw(v.xs[i])
      [] OTHER -> FALSE

\* the tree with every "raw" key removed, at every depth, and nothing else changed
RECURSIVE WithoutRaw(_)
WithoutRaw(v) ==
    CASE v.t = "dict" -> Dict([k \in DOMAIN v.d \ {"raw"} |-> WithoutRaw(v.d[k])])
      [] v.t = "list" -> List([i \in 1..Len(v.xs) |-> WithoutRaw(v.xs[i])])
      [] OTHER -> v

\* C7: the result of the raw-payload stripper has no key "raw" at any depth,
\* inside sequences and below the first level included, and keeps every other
\* key/value pair and every sequence length.
C7_NoRawAtAnyDepth ==
    fn = "strip_raw_deep" => ~HasRaw(res) /\ res = WithoutRaw(arg)

\* C8: when latest.json has a rows sequence of length n >= 1, data.latest has
\* rows equal to the one-element sequence of the last input row, count 1, and
\* every other field unchanged.
C8_LatestKeepsOnlyLastRow ==
    ("latest" \in DOMAIN loaded /\ "latest" \in DOMAIN data
        /\ HasRowSeq(loaded["latest"]) /\ loaded["latest"].d.rows.xs # <<>>) =>
        LET src == loaded["latest"].d
            out == data["latest"]
        IN /\ IsDict(out)
           /\ DOMAIN out.d = DOMAIN src \cup {"count"}
           /\ out.d.rows = List(<<src.rows.xs[Len(src.rows.xs)]>>)
           /\ out.d.count = IntV(1)
           /\ \A k \in DOMAIN src \ {"rows", "count"} : out.d[k] = src[k]

\* rows is a sequence of mappings
RowsAreMappings(doc) ==
    HasRowSeq(doc) /\ \A i \in 1..Len(doc.d.rows.xs) : IsDict(doc.d.rows.xs[i])

Smaller(a, b) == IF a < b THEN a ELSE b

\* C9: for a dataset with row sequence R and LAST_24H_KEEP_ROWS = N >= 0,
\* summarize_last24h returns as rows_tail exactly the last min(N, len(R)) rows
\* of R, verbatim and in their order; N = 0 gives an empty tail.
C9_TailIsLastRows ==
    (fn = "summarize_last24h" /\ RowsAreMappings(arg)) =>
        LET rs == arg.d.rows.xs
            tail == res.d.rows_tail.xs
        IN /\ Len(tail) = Smaller(tailN, Len(rs))
           /\ \A i \in 1..Len(tail) : tail[i] = rs[Len(rs) - Len(tail) + i]

\* three rows, N = 2: the tail is the second and the third row
C9_Witness ==
    /\ fn = "summarize_last24h" /\ RowsAreMappings(arg)
    /\ Len(arg.d.rows.xs) = 3 /\ tailN = 2
    /\ res.d.rows_tail.xs = <<arg.d.rows.xs[2], arg.d.rows.xs[3]>>
    /\ res.d.rows_tail.xs[1] # res.d.rows_tail.xs[2]

\* the document carries summary and label_counts and has no rows
AlreadySummarized(doc) ==
    IsDict(doc) /\ {"summary", "label_counts"} \subseteq DOMAIN doc.d /\ "rows" \notin DOMAIN doc.d

\* C10 as stated: both periodic summarizers return an already summarized
\* document unchanged.
C10_SummarizedReturnedUnchanged ==
    (fn \in {"summarize_timeseries_file", "keep_summary_only"} /\ AlreadySummarized(arg)) =>
        res = arg

\* C10 amended: on an already summarized document D, summarize_timeseries_file
\* returns D unchanged; keep_summary_only returns the four fields ok, version,
\* summary and label_counts only, with D's summary and label_counts unchanged;
\* and applying either summarizer to its own result returns that result.
C10_SummarizeIsIdempotent ==
    AlreadySummarized(arg) =>
        /\ fn = "summarize_timeseries_file" => res = arg
        /\ fn = "keep_summary_only" =>
              /\ DOMAIN res.d = {"ok", "version", "summary", "label_counts"}
              /\ res.d.summary = arg.d.summary
              /\ res.d.label_counts = arg.d.label_counts
        /\ (fn \in {"summarize_timeseries_file", "keep_summary_only"} /\ res2 # Unset) =>
              res2 = res

\* keep_summary_only changed a summarized document and, applied again, changed
\* nothing more
C10_Witness ==
    /\ fn = "keep_summary_only" /\ AlreadySummarized(arg)
    /\ res # arg
    /\ res2 = res

\* bool(doc["ok"]) when the document has an ok field, True when it has none
CoercedOk(doc) ==
    Bool(IF "ok" \in DOMAIN doc.d THEN Truthy(doc.d.ok) ELSE TRUE)

\* C11: every summarizer (summarize_rows, summarize_last24h,
\* keep_summary_only) outputs an ok field that is a boolean: the boolean
\* coercion of the document's ok when it has one and True when it has none,
\* for empty and non-empty row sequences alike; version is passed through
\* unchanged.
C11_OkIsCoercedBoolean ==
    (fn \in {"summarize_rows", "summarize_last24h", "keep_summary_only"}
        /\ (PlainRows(arg) \/ AlreadySummarized(arg))) =>
        /\ IsDict(res) /\ {"ok", "version"} \subseteq DOMAIN res.d
        /\ res.d.ok = CoercedOk(arg)
        /\ res.d.version = Get(arg, "version")

====
